---------------------------- MODULE Spec2Model ----------------------------
(***************************************************************************)
(* Model of the EV machine-learning scripts under ML_Model_Train:          *)
(*   new_model/test/batteryHealth.py  synthetic battery records, training, *)
(*                                    prediction                           *)
(*   new_model/test/repairecost.py    repair-cost training and prediction  *)
(*   new_model/test/conver.py         ONNX export of the saved regressor   *)
(*   train_simplified_model.py        repair-cost training + ONNX export   *)
(*                                                                         *)
(* Real numbers are carried in fixed point, each quantity in the unit      *)
(* written beside it, chosen so that the products of the degradation       *)
(* formula are exact:                                                      *)
(*   age_years 1e-3 y, annual_mileage 1 km, mileage 1e-3 km,               *)
(*   fast_charge_ratio 1e-4, avg_temperature_c 1e-2 C,                     *)
(*   avg_depth_of_discharge 1e-4, voltage 1e-4 V,                          *)
(*   internal_resistance_mohm 1e-4, charging_efficiency 1e-6,              *)
(*   battery_health 1e-7 percent (100.0 percent = 1000000000).             *)
(***************************************************************************)
EXTENDS Integers, Sequences, FiniteSets, TLC

VARIABLES
    rng,        \* state of numpy's global pseudo-random source
    pc,         \* position of the running script / call
    n_samples,  \* argument of the running generate_realistic_battery_data call
    entered,    \* state of the source found by the running call on entry
    data,       \* the list `data` of the running call (rows appended so far)
    locals,     \* per appended row, the loop body's local values before storing
    df,         \* table returned by the last completed call (NoTable before)
    calls,      \* completed calls, oldest first: <<n, table, source on entry>>
    probe,      \* two evaluations of the degradation formula side by side
    files,      \* the files under models/ and ONNXmodels/: path -> content
    mem,        \* the objects of the script run last (or running)
    predicted   \* the last call of a predictor in the running script

genVars == <<n_samples, entered, data, locals>>
scriptVars == <<files, mem, predicted>>
vars == <<rng, pc, genVars, df, calls, probe, scriptVars>>

-----------------------------------------------------------------------------
(* Bounds of the exploration *)

MaxSamples == 2     \* largest n_samples passed to the generator
MaxCalls == 2       \* generator calls followed in the seeded specification
RngMod == 8         \* number of states of the modelled pseudo-random source
MaxRows == 2        \* largest number of rows of sl_ev_repair_cost_dataset.csv

-----------------------------------------------------------------------------
(* Python built-ins used by the scripts *)

Min(a, b) == IF a <= b THEN a ELSE b
Max(a, b) == IF a >= b THEN a ELSE b

\* math.floor(x), the conversion int(x) is not
IntFloor(num, den) == num \div den

\* int(x): truncation toward zero; x is given as num/den with den > 0
IntTrunc(num, den) ==
    IF num >= 0 THEN num \div den ELSE -((-num) \div den)

\* round(x, ndigits): nearest multiple of q (the fixed-point size of
\* 10^-ndigits), a tie going to the even multiple
Round(x, q) ==
    LET lo == x \div q
        r  == x - lo * q
    IN  IF 2 * r < q THEN lo * q
        ELSE IF 2 * r > q THEN (lo + 1) * q
        ELSE IF lo % 2 = 0 THEN lo * q ELSE (lo + 1) * q

\* `sub in s` on strings
Contains(sub, s) ==
    \E i \in 1..(Len(s) - Len(sub) + 1) : SubSeq(s, i, i + Len(sub) - 1) = sub

-----------------------------------------------------------------------------
(* batteryHealth.py: generate_realistic_battery_data *)

ev_models ==
    << "Tesla Model 3", "Nissan Leaf", "Chevrolet Bolt", "BMW i3",
       "Hyundai Kona Electric", "Volkswagen ID.4", "Ford Mustang Mach-E",
       "Audi e-tron", "Rivian R1T", "BYD Atto 3", "MG ZS EV" >>

\* np.random.choice(seq): a uniform index, here the pick folded onto the list
Choice(seq, pick) == seq[1 + (pick % Len(seq))]

CapacityCandidatesRivianDefault(model) ==
    IF Contains("Tesla", model) THEN <<50, 75, 100>>
    ELSE IF Contains("Nissan Leaf", model) THEN <<40, 62>>
    ELSE <<50, 60, 75, 82>>

\* lines 61-68: the list battery_capacity_kwh is chosen from
CapacityCandidates(model) ==
    IF Contains("Tesla", model) THEN <<50, 75, 100>>
    ELSE IF Contains("Nissan Leaf", model) THEN <<40, 62>>
    ELSE IF Contains("Rivian", model) THEN <<135, 180>>
    ELSE <<50, 60, 75, 82>>

\* line 57: max(0.80, min(0.98, charging_efficiency))
ClampEfficiency(x) == Max(800000, Min(980000, x))

ClampHealthUpperOnly(h) == Min(1000000000, h)

\* line 104: max(40, min(100, battery_health))
ClampHealth(h) == Max(400000000, Min(1000000000, h))

BaselineCarried(rows) ==
    IF rows = <<>> THEN 1000000000
    ELSE rows[Len(rows)].battery_health_percent

\* line 73: battery_health = 100.0, set anew in every iteration whatever
\* rows were produced before
BaselineHealth(rows) == 1000000000

CalendarDegradationNegated(age_years, rate) == -(age_years * rate * 10)

\* line 76: age_years * np.random.uniform(2, 3)
CalendarDegradation(age_years, rate) == age_years * rate * 10

\* lines 80-81
CycleDegradation(battery_cycles, dod) ==
    LET cycle_factor == IF dod < 5000 THEN 10 ELSE 15
    IN  battery_cycles * cycle_factor * dod

\* line 85
FastChargeDegradation(fast_charge_ratio, battery_cycles) ==
    fast_charge_ratio * battery_cycles * 5

\* lines 89-94
TempDegradation(temp, age_years) ==
    IF temp > 3500 THEN (temp - 3500) * age_years * 30
    ELSE IF temp < 1000 THEN (1000 - temp) * age_years * 15
    ELSE 0

\* lines 97-98; the quotient is cut below 1e-7 percent
MileagePenalty(mileage) ==
    IF mileage > 100000000 THEN (mileage - 100000000) \div 2 ELSE 0

\* lines 73-101: battery_health before the clamp
HealthFormula(base, age_years, mileage, battery_cycles, fast_charge_ratio, temp, dod, rate, noise) ==
    base - CalendarDegradation(age_years, rate)
         - CycleDegradation(battery_cycles, dod)
         - FastChargeDegradation(fast_charge_ratio, battery_cycles)
         - TempDegradation(temp, age_years)
         - MileagePenalty(mileage)
         + noise

\* lines 29-104: the local values of one loop iteration, from its draws d
\* and the rows appended before it
Body(d, rows) ==
    LET age_years == d.age_years
        mileage == age_years * d.annual_mileage + d.noise_mileage
        battery_cycles == IntTrunc(mileage + 300 * d.noise_cycles, 300000)
        \* line 40: Beta(2,5) below three years, else Beta(1.5,4); both
        \* draws lie in [0, 1] and d.beta is the one that is made
        fast_charge_ratio == d.beta
        model == Choice(ev_models, d.model_pick)
        raw_health == HealthFormula(BaselineHealth(rows), age_years, mileage,
                          battery_cycles, fast_charge_ratio, d.temp, d.dod,
                          d.rate, d.noise_health)
    IN  [ age_years |-> age_years,
          annual_mileage |-> d.annual_mileage,
          mileage |-> mileage,
          battery_cycles |-> battery_cycles,
          fast_charge_ratio |-> fast_charge_ratio,
          avg_temperature_c |-> d.temp,
          avg_depth_of_discharge |-> d.dod,
          voltage |-> 4000000 - 15 * age_years + d.noise_voltage,
          internal_resistance_mohm |-> 20000 + 8 * age_years + d.u_resistance,
          charging_efficiency |->
              ClampEfficiency(950000 - 8 * age_years + d.u_efficiency),
          model |-> model,
          battery_capacity_kwh |-> Choice(CapacityCandidates(model), d.cap_pick),
          rate |-> d.rate,
          noise_mileage |-> d.noise_mileage,
          noise_cycles |-> d.noise_cycles,
          noise_health |-> d.noise_health,
          raw_health |-> raw_health,
          battery_health |-> ClampHealth(raw_health) ]

\* lines 106-119: the dict appended to `data`
Row(b) ==
    [ model |-> b.model,
      age_years |-> Round(b.age_years, 10),
      mileage |-> IntTrunc(b.mileage, 1000),
      battery_cycles |-> b.battery_cycles,
      fast_charge_ratio |-> Round(b.fast_charge_ratio, 10),
      avg_temperature_c |-> Round(b.avg_temperature_c, 10),
      avg_depth_of_discharge |-> Round(b.avg_depth_of_discharge, 10),
      voltage |-> Round(b.voltage, 100),
      internal_resistance_mohm |-> Round(b.internal_resistance_mohm, 100),
      charging_efficiency |-> Round(b.charging_efficiency, 1000),
      battery_capacity_kwh |-> b.battery_capacity_kwh,
      battery_health_percent |-> Round(b.battery_health, 100000) ]

\* line 121: pd.DataFrame(data); the columns are the keys of the dicts, so a
\* frame built from an empty list has none
DataFrame(rows) ==
    [ rows |-> rows,
      columns |-> UNION { DOMAIN rows[i] : i \in 1..Len(rows) } ]

NoTable == [ rows |-> <<>>, columns |-> {"<none>"} ]

-----------------------------------------------------------------------------
(* numpy's global pseudo-random source.  Its generator is library code: the  *)
(* model keeps what the scripts rely on, a state that seed() sets from the   *)
(* seed alone and that every draw reads and advances.                        *)

\* line 17: np.random.seed(42); the state before the call is overwritten
ReseedSkipped(r) == r

Reseed(r) == 42 % RngMod

\* the state after one draw
NextRng(r) == (5 * r + 3) % RngMod

RECURSIVE Skip(_, _)
Skip(r, k) == IF k = 0 THEN r ELSE Skip(NextRng(r), k - 1)

\* a draw from [lo, hi) read off state r; the Gaussian draws are cut at
\* three standard deviations
Sample(lo, hi, r) == lo + ((hi - lo) * r) \div RngMod

\* the 14 draws of one loop iteration, in the order of lines 29-101
StreamDraws(r) ==
    [ age_years      |-> Sample(100, 10000, r),
      annual_mileage |-> Sample(8000, 25000, Skip(r, 1)),
      noise_mileage  |-> Sample(-6000000, 6000000, Skip(r, 2)),
      noise_cycles   |-> Sample(-150000, 150000, Skip(r, 3)),
      beta           |-> Sample(0, 10000, Skip(r, 4)),
      temp           |-> Sample(1500, 4000, Skip(r, 5)),
      dod            |-> Sample(3000, 9000, Skip(r, 6)),
      noise_voltage  |-> Sample(-150000, 150000, Skip(r, 7)),
      u_resistance   |-> Sample(0, 10000, Skip(r, 8)),
      u_efficiency   |-> Sample(-20000, 10000, Skip(r, 9)),
      model_pick     |-> Skip(r, 10),
      cap_pick       |-> Skip(r, 11),
      rate           |-> Sample(2000, 3000, Skip(r, 12)),
      noise_health   |-> Sample(-60000000, 60000000, Skip(r, 13)) ]

DrawsPerRow == 14

-----------------------------------------------------------------------------
(* The draws explored when the source is left unconstrained: every value is  *)
(* inside the range of its distribution.  Each set varies a few draws around *)
(* a nominal iteration.                                                      *)

Nominal ==
    [ age_years |-> 4000, annual_mileage |-> 20000, noise_mileage |-> 0,
      noise_cycles |-> 0, beta |-> 2857, temp |-> 2000, dod |-> 6000,
      noise_voltage |-> 0, u_resistance |-> 5000, u_efficiency |-> -5000,
      model_pick |-> 0, cap_pick |-> 0, rate |-> 2500, noise_health |-> 0 ]

\* every catalog entry with every capacity pick
CapacityDraws ==
    { [Nominal EXCEPT !.model_pick = m, !.cap_pick = c] :
        m \in 0..(Len(ev_models) - 1), c \in 0..3 }

\* young and old vehicles, low and high usage, noise of either sign, with
\* and without a fraction of a kilometre
MileageDraws ==
    { [Nominal EXCEPT !.age_years = a, !.annual_mileage = am,
                      !.noise_mileage = nm, !.noise_cycles = nc] :
        a \in {100, 9999}, am \in {8000, 24999},
        nm \in {-2000000, -2150600, 1500}, nc \in {-50000, 50000} }

\* temperatures on both sides of 35 C (two of them 0.03 C apart), depth of
\* discharge on both sides of 0.5, calendar rate and final noise
HealthDraws ==
    { [Nominal EXCEPT !.temp = t, !.dod = dd, !.rate = rt,
                      !.noise_health = nh] :
        t \in {2000, 3601, 3604}, dd \in {4999, 8999},
        rt \in {2000, 2999}, nh \in {-20000000, 0} }

EfficiencyDraws ==
    { [Nominal EXCEPT !.age_years = a, !.u_efficiency = u,
                      !.noise_voltage = nv] :
        a \in {100, 9999}, u \in {-20000, 9999}, nv \in {-50000, 50049} }

\* a new vehicle with every draw in its favour, and a worn one with none
BestCase ==
    [Nominal EXCEPT !.age_years = 100, !.annual_mileage = 8000,
                    !.noise_cycles = -150000, !.beta = 0, !.dod = 3000,
                    !.rate = 2000, !.noise_health = 60000000]

WorstCase ==
    [Nominal EXCEPT !.age_years = 9999, !.annual_mileage = 24999,
                    !.noise_mileage = 6000000, !.noise_cycles = 150000,
                    !.beta = 9000, !.temp = 3999, !.dod = 8999,
                    !.u_resistance = 9999, !.rate = 2999,
                    !.noise_health = -60000000]

Draws ==
    CapacityDraws \cup MileageDraws \cup HealthDraws \cup EfficiencyDraws
        \cup {BestCase, WorstCase}

-----------------------------------------------------------------------------
(* Files and library objects of the scripts.  The regressor, the encoder and *)
(* the converter are library code: the model keeps what the scripts pass in  *)
(* and read back.                                                            *)

Paths ==
    { "models/battery_health_model.pkl",
      "models/battery_health_label_encoder.pkl",
      "models/battery_health_features.pkl",
      "models/simple_repair_cost_model.pkl",
      "models/simple_repair_cost_encoders.pkl",
      "models/simple_repair_cost_features.pkl",
      "models/repair_cost_out_of_pocket_model.pkl",
      "models/repair_cost_out_of_pocket_features.pkl",
      "ONNXmodels/repair_cost_model.onnx" }

\* the files directly under models/
ModelPaths == { p \in Paths : SubSeq(p, 1, 7) = "models/" }

Absent == [ kind |-> "absent", holds |-> "nothing" ]

\* joblib.dump(obj, path)
Pickle(holds, obj) == [ kind |-> "pickle", holds |-> holds, obj |-> obj ]

NoRun == [ script |-> "none", status |-> "none" ]

NoPrediction == [ fn |-> "none" ]

\* the order Python gives the strings the label encoders meet
Lexicographic ==
    << "Audi e-tron", "BMW i3", "BYD Atto 3", "Battery Replacement",
       "Charging Port Repair", "Chevrolet Bolt", "Ford Mustang Mach-E",
       "Hyundai Kona Electric", "Lucid Air", "MG ZS EV", "Motor Repair",
       "Nissan Leaf", "Rivian R1T", "Tesla Model 3", "Volkswagen ID.4" >>

\* LabelEncoder.fit: classes_ is the sorted list of the distinct values
FitLabels(values) == SelectSeq(Lexicographic, LAMBDA v : v \in values)

\* whether LabelEncoder.transform accepts v (it raises ValueError otherwise)
Seen(classes, v) == \E i \in 1..Len(classes) : classes[i] = v

\* LabelEncoder.transform(v) for a value it accepts: the index in classes_
Transform(classes, v) == (CHOOSE i \in 1..Len(classes) : classes[i] = v) - 1

\* GradientBoostingRegressor(...).fit(X, y): the fitted estimator, known by
\* its hyperparameters and by the columns it was fitted on
Regressor(n_estimators, feature_cols) ==
    [ estimator |-> "GradientBoostingRegressor",
      n_estimators |-> n_estimators,
      feature_names_in |-> feature_cols ]

\* what a fitted regressor may answer: below the valid range, inside it and
\* above 100
RegressorOutputs == {-5, 87, 104}

\* train_test_split(X, y, test_size=0.2): the number of test rows,
\* ceil(0.2 * n)
TestRows(n) == (n + 4) \div 5

\* convert_sklearn(model, initial_types=[('float_input',
\* FloatTensorType([None, n]))], target_opset=12), serialized
Onnx(model, n) ==
    [ kind |-> "onnx", holds |-> "graph", obj |-> model,
      input_shape |-> <<"None", n>>, input_type |-> "float" ]

-----------------------------------------------------------------------------
(* Steps of generate_realistic_battery_data *)

\* lines 12-19: entry, re-seeding the global source
Enter(n) ==
    /\ rng' = Reseed(rng)
    /\ n_samples' = n
    /\ entered' = rng
    /\ data' = <<>>
    /\ locals' = <<>>
    /\ pc' = "loop"
    /\ UNCHANGED <<df, calls, probe>>

\* lines 27-119: one iteration with the draws d
Iterate(d) ==
    /\ pc = "loop"
    /\ Len(data) < n_samples
    /\ LET b == Body(d, data)
       IN  /\ data' = Append(data, Row(b))
           /\ locals' = Append(locals, b)
    /\ rng' = Skip(rng, DrawsPerRow)
    /\ UNCHANGED <<pc, n_samples, entered, df, calls, probe, scriptVars>>

\* the iteration when any value of the distributions may be drawn
LoopBody == \E d \in Draws : Iterate(d)

\* the iteration when the draws are read off the seeded source
LoopBodySeeded == Iterate(StreamDraws(rng))

\* line 121
ReturnTable ==
    /\ pc = "loop"
    /\ Len(data) = n_samples
    /\ df' = DataFrame(data)
    /\ pc' = "returned"
    /\ UNCHANGED <<rng, n_samples, entered, data, locals, probe, scriptVars>>

\* line 121, the completed call entered in the log
Return ==
    /\ ReturnTable
    /\ calls' = Append(calls, <<n_samples, DataFrame(data), entered>>)

\* a call of the function with the sample count left open
Call ==
    \E n \in 0..MaxSamples :
        /\ pc = "start"
        /\ Enter(n)
        /\ UNCHANGED scriptVars

\* a later call of the function, by any caller
CallAgain ==
    \E n \in 0..MaxSamples :
        /\ pc = "returned"
        /\ Len(calls) < MaxCalls
        /\ Enter(n)
        /\ UNCHANGED scriptVars

\* other code drawing from the global source between two calls
UseGlobalRandom ==
    /\ pc \in {"start", "returned"}
    /\ rng' = NextRng(rng)
    /\ UNCHANGED <<pc, genVars, df, calls, probe, scriptVars>>

\* other code re-seeding the global source between two calls
SeedElsewhere ==
    \E s \in 0..(RngMod - 1) :
        /\ pc \in {"start", "returned"}
        /\ rng' = s
        /\ UNCHANGED <<pc, genVars, df, calls, probe, scriptVars>>

NoProbe == [ evaluated |-> FALSE ]

\* no file written, no script run yet
InitScripts ==
    /\ files = [ p \in Paths |-> Absent ]
    /\ mem = NoRun
    /\ predicted = NoPrediction

\* a fresh interpreter; other code may move the source before the first call
Init ==
    /\ rng = 0
    /\ pc = "start"
    /\ n_samples = 0
    /\ entered = 0
    /\ data = <<>>
    /\ locals = <<>>
    /\ df = NoTable
    /\ calls = <<>>
    /\ probe = NoProbe
    /\ InitScripts

Next == Call \/ LoopBody \/ Return

Spec == Init /\ [][Next]_vars

NextSeeded ==
    Call \/ CallAgain \/ LoopBodySeeded \/ Return
        \/ UseGlobalRandom \/ SeedElsewhere

SpecSeeded == Init /\ [][NextSeeded]_vars

-----------------------------------------------------------------------------
(* batteryHealth.py run as a script: generate, train, predict *)

\* lines 126-142: the feature list of prepare_battery_health_data
BatteryFeatureCols ==
    << "age_years", "mileage", "battery_cycles", "fast_charge_ratio",
       "avg_temperature_c", "avg_depth_of_discharge", "voltage",
       "internal_resistance_mohm", "charging_efficiency",
       "battery_capacity_kwh", "model_encoded" >>

\* lines 224-225: the script starts and calls the generator (5000 samples
\* in the script; the count is left open here)
RunBatteryHealth ==
    \E n \in 0..MaxSamples :
        /\ pc = "shell"
        /\ Enter(n)
        /\ mem' = [ script |-> "batteryHealth.py", status |-> "running" ]
        /\ predicted' = NoPrediction
        /\ UNCHANGED files

\* line 121, back in the script
ReturnToScript ==
    /\ ReturnTable
    /\ UNCHANGED calls

\* lines 227-235 and train_battery_health_model (150-198).  Reading the
\* column battery_health_percent (line 229) raises KeyError on a frame
\* without columns, and train_test_split raises ValueError when no row is
\* left to train on; the three dumps come after the fit.
TrainBatteryHealth ==
    /\ pc = "returned"
    /\ mem.script = "batteryHealth.py"
    /\ LET n == Len(df.rows)
           le_model == FitLabels({ df.rows[i].model : i \in 1..n })
           model == Regressor(300, BatteryFeatureCols)
       IN  IF "battery_health_percent" \in df.columns /\ n - TestRows(n) > 0
           THEN /\ mem' = [ script |-> "batteryHealth.py", status |-> "trained",
                            fit_called |-> TRUE, fit_rows |-> n - TestRows(n),
                            model |-> model,
                            encoders |-> [ model |-> le_model ],
                            feature_cols |-> BatteryFeatureCols ]
                /\ files' = [ files EXCEPT
                      !["models/battery_health_model.pkl"] =
                          Pickle("model", model),
                      !["models/battery_health_label_encoder.pkl"] =
                          Pickle("encoders", [ model |-> le_model ]),
                      !["models/battery_health_features.pkl"] =
                          Pickle("features", BatteryFeatureCols) ]
                /\ pc' = "trained"
           ELSE /\ mem' = [ script |-> "batteryHealth.py", status |-> "failed" ]
                /\ files' = files
                /\ pc' = "crashed"
    /\ UNCHANGED <<rng, genVars, df, calls, probe, predicted>>

\* predict_battery_health (lines 201-219) for any vehicle model name, one
\* of them outside ev_models; the except branch (lines 208-209) sets 0 and
\* prints nothing
PredictBatteryHealth ==
    \E name \in {"Tesla Model 3", "Nissan Leaf", "Kia EV6"},
       y \in RegressorOutputs :
        /\ pc = "trained"
        /\ mem.script = "batteryHealth.py"
        /\ LET classes == mem.encoders.model
               known == Seen(classes, name)
           IN  predicted' =
                   [ fn |-> "predict_battery_health",
                     model_unseen |-> ~known,
                     repair_type_unseen |-> FALSE,
                     model_encoded |-> IF known THEN Transform(classes, name)
                                       ELSE 0,
                     repair_type_encoded |-> 0,
                     warnings |-> {},
                     returned |-> Max(0, Min(100, y)) ]
        /\ UNCHANGED <<rng, pc, genVars, df, calls, probe, files, mem>>

-----------------------------------------------------------------------------
(* repairecost.py, train_simplified_model.py and conver.py *)

\* a missing value of a numeric column (pandas' NaN); no present value of
\* the tables below is negative
NaN == -1

\* the list of lines 23-28 without the extend of line 37
RepairFeatureColsNotExtended ==
    << "age_years", "mileage_km", "battery_health_percent",
       "battery_capacity_kwh" >>

\* repairecost.py lines 23-37 and train_simplified_model.py lines 28-35
RepairFeatureCols ==
    << "age_years", "mileage_km", "battery_health_percent",
       "battery_capacity_kwh", "model_encoded", "repair_type_encoded" >>

\* the rows of sl_ev_repair_cost_dataset.csv that are explored: one row that
\* needs no repair, and repair rows of three model / repair-type pairs whose
\* age_years (1e-3 y) is present or missing
CsvRows ==
    { [ needs_repair |-> FALSE, model |-> "Nissan Leaf",
        repair_type |-> "Battery Replacement", age_years |-> 2000,
        mileage_km |-> 25000, battery_health_percent |-> 90,
        battery_capacity_kwh |-> 40, out_of_pocket_cost_lkr |-> 0 ] }
    \cup
    { [ needs_repair |-> TRUE, model |-> k[1], repair_type |-> k[2],
        age_years |-> a, mileage_km |-> 25000,
        battery_health_percent |-> 90, battery_capacity_kwh |-> 40,
        out_of_pocket_cost_lkr |-> 150000 ] :
        k \in { <<"Nissan Leaf", "Battery Replacement">>,
                <<"BYD Atto 3", "Motor Repair">>,
                <<"Nissan Leaf", "Motor Repair">> },
        a \in {NaN, 2000, 7000} }

CsvTables == UNION { [1..n -> CsvRows] : n \in 0..MaxRows }

RECURSIVE SumColumn(_, _, _)
SumColumn(X, c, i) ==
    IF i = 0 THEN 0
    ELSE SumColumn(X, c, i - 1) + (IF X[i][c] = NaN THEN 0 ELSE X[i][c])

\* X.mean()[c]: the mean of the present values of column c, NaN when the
\* column has none; the quotient is cut below the fixed-point unit
ColumnMean(X, c) ==
    LET present == { i \in 1..Len(X) : X[i][c] # NaN }
    IN  IF present = {} THEN NaN
        ELSE SumColumn(X, c, Len(X)) \div Cardinality(present)

\* `if X.isnull().sum().sum() > 0: X = X.fillna(X.mean())`
FillNa(X) ==
    [ i \in 1..Len(X) |->
        [ c \in DOMAIN X[i] |->
            IF X[i][c] = NaN THEN ColumnMean(X, c) ELSE X[i][c] ] ]

HasNaN(X) == \E i \in 1..Len(X) : \E c \in DOMAIN X[i] : X[i][c] = NaN

\* the filter, the two encoders and the feature matrix: repairecost.py
\* lines 18-45, train_simplified_model.py lines 17-42
PrepareRepairData(csv) ==
    LET df_repair == SelectSeq(csv, LAMBDA r : r.needs_repair)
        n == Len(df_repair)
        le_model == FitLabels({ df_repair[i].model : i \in 1..n })
        le_repair == FitLabels({ df_repair[i].repair_type : i \in 1..n })
        X == [ i \in 1..n |->
                [ age_years |-> df_repair[i].age_years,
                  mileage_km |-> df_repair[i].mileage_km,
                  battery_health_percent |->
                      df_repair[i].battery_health_percent,
                  battery_capacity_kwh |-> df_repair[i].battery_capacity_kwh,
                  model_encoded |-> Transform(le_model, df_repair[i].model),
                  repair_type_encoded |->
                      Transform(le_repair, df_repair[i].repair_type) ] ]
    IN  [ X |-> FillNa(X),
          encoders |-> [ model |-> le_model, repair_type |-> le_repair ],
          feature_cols |-> RepairFeatureCols ]

\* the rows of X whose index is in keep, in their order
RECURSIVE Rows(_, _, _)
Rows(X, keep, i) ==
    IF i > Len(X) THEN <<>>
    ELSE (IF i \in keep THEN <<X[i]>> ELSE <<>>) \o Rows(X, keep, i + 1)

\* repairecost.py lines 189-193 with train_simplified_repair_model
\* (55-126).  train_test_split raises ValueError when no row is left to
\* train on; which rows it keeps for training is the library's shuffle.
\* fit raises ValueError on a matrix with a missing value; the three dumps
\* come after the fit.
TrainRepairCost ==
    \E csv \in CsvTables :
        LET prep == PrepareRepairData(csv)
            n == Len(prep.X)
            model == Regressor(250, prep.feature_cols)
        IN  \E train \in { t \in SUBSET (1..n) :
                              Cardinality(t) = n - TestRows(n) } :
                LET X_train == Rows(prep.X, train, 1)
                IN  /\ pc = "shell"
                    /\ predicted' = NoPrediction
                    /\ IF train = {}
                       THEN /\ mem' = [ script |-> "repairecost.py",
                                        status |-> "failed",
                                        fit_called |-> FALSE ]
                            /\ files' = files
                            /\ pc' = "crashed"
                       ELSE IF HasNaN(X_train)
                       THEN /\ mem' = [ script |-> "repairecost.py",
                                        status |-> "failed",
                                        fit_called |-> TRUE,
                                        fit_X |-> X_train ]
                            /\ files' = files
                            /\ pc' = "crashed"
                       ELSE /\ mem' = [ script |-> "repairecost.py",
                                        status |-> "trained",
                                        fit_called |-> TRUE,
                                        fit_X |-> X_train,
                                        model |-> model,
                                        encoders |-> prep.encoders,
                                        feature_cols |-> prep.feature_cols ]
                            /\ files' = [ files EXCEPT
                                  !["models/simple_repair_cost_model.pkl"] =
                                      Pickle("model", model),
                                  !["models/simple_repair_cost_encoders.pkl"] =
                                      Pickle("encoders", prep.encoders),
                                  !["models/simple_repair_cost_features.pkl"] =
                                      Pickle("features", prep.feature_cols) ]
                            /\ pc' = "trained"
                    /\ UNCHANGED <<rng, genVars, df, calls, probe>>

\* predict_repair_cost (lines 129-183) for any model name and repair type;
\* each except branch prints a warning and sets 0
PredictRepairCost ==
    \E model_name \in {"Nissan Leaf", "BYD Atto 3", "Tesla Model 3"},
       repair_type \in {"Battery Replacement", "Motor Repair",
                        "Charging Port Repair"},
       y \in RegressorOutputs :
        /\ pc = "trained"
        /\ mem.script = "repairecost.py"
        /\ LET known_model == Seen(mem.encoders.model, model_name)
               known_type == Seen(mem.encoders.repair_type, repair_type)
           IN  predicted' =
                   [ fn |-> "predict_repair_cost",
                     model_unseen |-> ~known_model,
                     repair_type_unseen |-> ~known_type,
                     model_encoded |->
                         IF known_model
                         THEN Transform(mem.encoders.model, model_name)
                         ELSE 0,
                     repair_type_encoded |->
                         IF known_type
                         THEN Transform(mem.encoders.repair_type, repair_type)
                         ELSE 0,
                     warnings |->
                         (IF known_model THEN {} ELSE {"Unknown model"})
                         \cup (IF known_type THEN {}
                               ELSE {"Unknown repair type"}),
                     returned |-> Max(0, y) ]
        /\ UNCHANGED <<rng, pc, genVars, df, calls, probe, files, mem>>

\* train_simplified_model.py: train_and_convert (lines 12-70).  The fit is
\* on every repair row; the two encoders are fitted and never dumped.
TrainAndConvert ==
    \E csv \in CsvTables :
        LET prep == PrepareRepairData(csv)
            model == Regressor(200, prep.feature_cols)
        IN  /\ pc = "shell"
            /\ predicted' = NoPrediction
            /\ IF Len(prep.X) = 0 \/ HasNaN(prep.X)
               THEN /\ mem' = [ script |-> "train_simplified_model.py",
                                status |-> "failed",
                                fit_called |-> TRUE,
                                fit_X |-> prep.X ]
                    /\ files' = files
                    /\ pc' = "crashed"
               ELSE /\ mem' = [ script |-> "train_simplified_model.py",
                                status |-> "trained",
                                fit_called |-> TRUE,
                                fit_X |-> prep.X,
                                model |-> model,
                                encoders |-> prep.encoders,
                                feature_cols |-> prep.feature_cols ]
                    /\ files' = [ files EXCEPT
                          !["models/repair_cost_out_of_pocket_model.pkl"] =
                              Pickle("model", model),
                          !["models/repair_cost_out_of_pocket_features.pkl"] =
                              Pickle("features", prep.feature_cols),
                          !["ONNXmodels/repair_cost_model.onnx"] =
                              Onnx(model, Len(prep.feature_cols)) ]
                    /\ pc' = "finished"
            /\ UNCHANGED <<rng, genVars, df, calls, probe>>

\* conver.py (lines 7-23): joblib.load raises when a file is missing
Conver ==
    LET model_file == files["models/simple_repair_cost_model.pkl"]
        features_file == files["models/simple_repair_cost_features.pkl"]
    IN  /\ pc = "shell"
        /\ predicted' = NoPrediction
        /\ IF model_file.kind = "pickle" /\ features_file.kind = "pickle"
           THEN /\ mem' = [ script |-> "conver.py", status |-> "converted" ]
                /\ files' = [ files EXCEPT
                      !["ONNXmodels/repair_cost_model.onnx"] =
                          Onnx(model_file.obj, Len(features_file.obj)) ]
                /\ pc' = "finished"
           ELSE /\ mem' = [ script |-> "conver.py", status |-> "failed" ]
                /\ files' = files
                /\ pc' = "crashed"
        /\ UNCHANGED <<rng, genVars, df, calls, probe>>

\* the interpreter exits: the run's objects are gone, the files stay
EndScript ==
    /\ pc \in {"trained", "finished", "crashed"}
    /\ pc' = "shell"
    /\ mem' = NoRun
    /\ predicted' = NoPrediction
    /\ df' = NoTable
    /\ n_samples' = 0
    /\ entered' = 0
    /\ data' = <<>>
    /\ locals' = <<>>
    /\ UNCHANGED <<rng, calls, probe, files>>

\* a shell in which the scripts are run one after another, in any order
InitShell ==
    /\ rng = 0
    /\ pc = "shell"
    /\ n_samples = 0
    /\ entered = 0
    /\ data = <<>>
    /\ locals = <<>>
    /\ df = NoTable
    /\ calls = <<>>
    /\ probe = NoProbe
    /\ InitScripts

NextScripts ==
    \/ RunBatteryHealth
    \/ LoopBodySeeded
    \/ ReturnToScript
    \/ TrainBatteryHealth
    \/ PredictBatteryHealth
    \/ TrainRepairCost
    \/ PredictRepairCost
    \/ TrainAndConvert
    \/ Conver
    \/ EndScript

SpecScripts == InitShell /\ [][NextScripts]_vars

-----------------------------------------------------------------------------
(* The degradation formula of lines 73-104 and 118 applied to two ages with  *)
(* every other value and every draw shared.  The inputs go beyond what one   *)
(* generator run produces together: negative mileage and cycles, and         *)
(* temperatures below 10 C, which the formula handles.                       *)

ProbeInputs ==
    [ age_a : {100, 4000, 9999}, age_b : {100, 4000, 9999},
      mileage : {-1200000, 80000000, 250000000},
      battery_cycles : {-100, 266, 983},
      fast_charge_ratio : {0, 9000},
      temp : {500, 2000, 3999},
      dod : {3000, 8999},
      rate : {2000, 2999},
      noise : {-60000000, 60000000},
      evaluated : {FALSE} ]

\* lines 73-101, 104 and 118 for the age `age` and the inputs in p
ProbeHealth(p, age) ==
    LET raw == HealthFormula(BaselineHealth(<<>>), age, p.mileage,
                   p.battery_cycles, p.fast_charge_ratio, p.temp, p.dod,
                   p.rate, p.noise)
    IN  [ raw |-> raw, stored |-> Round(ClampHealth(raw), 100000) ]

Evaluate ==
    /\ ~probe.evaluated
    /\ probe' = [ inputs |-> probe, evaluated |-> TRUE,
                  a |-> ProbeHealth(probe, probe.age_a),
                  b |-> ProbeHealth(probe, probe.age_b) ]
    /\ UNCHANGED <<rng, pc, genVars, df, calls, scriptVars>>

InitFormula ==
    /\ rng = 0
    /\ pc = "formula"
    /\ n_samples = 0
    /\ entered = 0
    /\ data = <<>>
    /\ locals = <<>>
    /\ df = NoTable
    /\ calls = <<>>
    /\ probe \in ProbeInputs
    /\ InitScripts

NextFormula == Evaluate

SpecFormula == InitFormula /\ [][NextFormula]_vars

-----------------------------------------------------------------------------
(* Claims *)

ColumnNames ==
    { "model", "age_years", "mileage", "battery_cycles", "fast_charge_ratio",
      "avg_temperature_c", "avg_depth_of_discharge", "voltage",
      "internal_resistance_mohm", "charging_efficiency",
      "battery_capacity_kwh", "battery_health_percent" }

\* the feature columns of a stored row: every column but the target
FeatureNames == ColumnNames \ {"battery_health_percent"}

\* C1: two completed calls of generate_realistic_battery_data with the same
\* n return identical tables, whatever was drawn from or seeded into the
\* global source before or between them.
C1_SameTableForSameN ==
    \A i, j \in 1..Len(calls) :
        calls[i][1] = calls[j][1] => calls[i][2] = calls[j][2]

C1_Witness ==
    /\ Len(calls) = 2
    /\ calls[1][1] = calls[2][1]
    /\ calls[1][1] = MaxSamples
    /\ Len(calls[2][2].rows) = MaxSamples
    /\ calls[1][3] # calls[2][3]
    /\ calls[2][3] # Skip(Reseed(0), MaxSamples * DrawsPerRow)

\* C2: for every n >= 0, n = 0 included, the returned table has exactly n
\* rows and the 12 named columns.
C2_RowsAndColumns ==
    \A i \in 1..Len(calls) :
        /\ Len(calls[i][2].rows) = calls[i][1]
        /\ calls[i][2].columns = ColumnNames

\* C3: every stored record has 40 <= battery_health_percent <= 100 and
\* 0.80 <= charging_efficiency <= 0.98, after the final rounding.
C3_BoundedFields ==
    \A i \in 1..Len(data) :
        /\ 400000000 <= data[i].battery_health_percent
        /\ data[i].battery_health_percent <= 1000000000
        /\ 800000 <= data[i].charging_efficiency
        /\ data[i].charging_efficiency <= 980000

C3_Witness ==
    /\ Len(data) = 2
    /\ locals[1].raw_health < 400000000
    /\ data[1].battery_health_percent = 400000000
    /\ locals[2].raw_health > 1000000000
    /\ data[2].battery_health_percent = 1000000000

\* C4: every stored record has a mileage that is clamped to be >= 0.
C4_MileageNonNegative ==
    \A i \in 1..Len(data) : data[i].mileage >= 0

\* C5: battery_capacity_kwh is a member of the candidate set of the record's
\* model: {50,75,100} when the name contains 'Tesla', else {40,62} when it
\* contains 'Nissan Leaf', else {135,180} when it contains 'Rivian', else
\* {50,60,75,82}.
C5_CapacityFromCandidates ==
    \A i \in 1..Len(data) :
        LET m == data[i].model
            c == data[i].battery_capacity_kwh
        IN  IF Contains("Tesla", m) THEN c \in {50, 75, 100}
            ELSE IF Contains("Nissan Leaf", m) THEN c \in {40, 62}
            ELSE IF Contains("Rivian", m) THEN c \in {135, 180}
            ELSE c \in {50, 60, 75, 82}

C5_Witness ==
    /\ Len(data) = 2
    /\ data[1].model = "Rivian R1T" /\ data[1].battery_capacity_kwh = 180
    /\ data[2].model = "MG ZS EV" /\ data[2].battery_capacity_kwh = 82

\* C6 as stated: two records with the same stored feature values, the same
\* calendar-rate draw and the same final noise draw have the same
\* battery_health_percent.
C6_TargetFromStoredFeatures ==
    \A i, j \in 1..Len(data) :
        ( /\ \A f \in FeatureNames : data[i][f] = data[j][f]
          /\ locals[i].rate = locals[j].rate
          /\ locals[i].noise_health = locals[j].noise_health )
        => data[i].battery_health_percent = data[j].battery_health_percent

\* C6 amended: two records of a table whose loop values of age_years,
\* mileage, battery_cycles, fast_charge_ratio, avg_temperature_c and
\* avg_depth_of_discharge agree before they are rounded for storage, and
\* that use the same calendar-rate draw and the same final noise draw, have
\* the same battery_health_percent.
C6_TargetFromLoopValues ==
    \A i, j \in 1..Len(data) :
        ( /\ locals[i].age_years = locals[j].age_years
          /\ locals[i].mileage = locals[j].mileage
          /\ locals[i].battery_cycles = locals[j].battery_cycles
          /\ locals[i].fast_charge_ratio = locals[j].fast_charge_ratio
          /\ locals[i].avg_temperature_c = locals[j].avg_temperature_c
          /\ locals[i].avg_depth_of_discharge = locals[j].avg_depth_of_discharge
          /\ locals[i].rate = locals[j].rate
          /\ locals[i].noise_health = locals[j].noise_health )
        => data[i].battery_health_percent = data[j].battery_health_percent

C6_Witness ==
    /\ Len(data) = 2
    /\ locals[1].age_years = locals[2].age_years
    /\ locals[1].mileage = locals[2].mileage
    /\ locals[1].battery_cycles = locals[2].battery_cycles
    /\ locals[1].fast_charge_ratio = locals[2].fast_charge_ratio
    /\ locals[1].avg_temperature_c = locals[2].avg_temperature_c
    /\ locals[1].avg_depth_of_discharge = locals[2].avg_depth_of_discharge
    /\ locals[1].rate = locals[2].rate
    /\ locals[1].noise_health = locals[2].noise_health
    /\ data[1].model # data[2].model
    /\ data[1].battery_capacity_kwh # data[2].battery_capacity_kwh
    /\ data[1].battery_health_percent < 1000000000
    /\ data[1].battery_health_percent > 400000000

\* C7: in both predictors, when the vehicle model or the repair type was
\* never seen in training, the encoded value is the default 0, a warning is
\* emitted, and the call still returns a prediction.
C7_UnseenCategoryFallback ==
    predicted.fn # "none" =>
        /\ predicted.model_unseen =>
               /\ predicted.model_encoded = 0
               /\ "Unknown model" \in predicted.warnings
        /\ predicted.repair_type_unseen =>
               /\ predicted.repair_type_encoded = 0
               /\ "Unknown repair type" \in predicted.warnings
        /\ predicted.returned >= 0

\* C8: after a training run that completes, the trained model, the label
\* encoders fitted in that run and the feature-name list are each in a
\* distinct file under models/.
C8_ArtifactsPersisted ==
    mem.status = "trained" =>
        \E p1, p2, p3 \in ModelPaths :
            /\ p1 # p2 /\ p1 # p3 /\ p2 # p3
            /\ files[p1].holds = "model" /\ files[p1].obj = mem.model
            /\ files[p2].holds = "encoders" /\ files[p2].obj = mem.encoders
            /\ files[p3].holds = "features"
            /\ files[p3].obj = mem.feature_cols

\* C9: in the repair-cost training paths the matrix handed to the
\* regressor's fit contains no missing value, whatever the input table.
C9_NoMissingValueAtFit ==
    ( /\ mem.script \in {"repairecost.py", "train_simplified_model.py"}
      /\ mem.fit_called )
    => ~HasNaN(mem.fit_X)

\* C10: with every other field and every draw fixed, a larger age_years
\* never yields a larger battery_health, before the clamp and after it.
C10_HealthMonotoneInAge ==
    ( probe.evaluated /\ probe.inputs.age_a <= probe.inputs.age_b )
    => /\ probe.b.raw <= probe.a.raw
       /\ probe.b.stored <= probe.a.stored

C10_Witness ==
    /\ probe.evaluated
    /\ probe.inputs.age_a < probe.inputs.age_b
    /\ probe.inputs.temp < 1000
    /\ probe.b.raw < probe.a.raw
    /\ probe.b.stored < probe.a.stored

\* C11 as stated: in every record mileage is age_years * annual_mileage +
\* noise rounded to the nearest integer, and battery_cycles is mileage / 300
\* + noise rounded to the nearest integer, for positive and for negative
\* values alike.
C11_NearestInteger ==
    \A i \in 1..Len(data) :
        LET cycles == locals[i].mileage + 300 * locals[i].noise_cycles
        IN  /\ data[i].mileage * 1000 = Round(locals[i].mileage, 1000)
            /\ data[i].battery_cycles * 300000 = Round(cycles, 300000)

\* C11 amended: in every record mileage is age_years * annual_mileage +
\* noise with its fraction dropped (toward zero), and battery_cycles is
\* mileage / 300 + noise, taken on the mileage before its fraction is
\* dropped, with its fraction dropped (toward zero): the stored integer is
\* never further from zero than the value, and less than one away from it.
C11_FractionDropped ==
    \A i \in 1..Len(data) :
        LET x == locals[i].mileage
            m == data[i].mileage * 1000
            y == locals[i].mileage + 300 * locals[i].noise_cycles
            c == data[i].battery_cycles * 300000
        IN  /\ x = locals[i].age_years * locals[i].annual_mileage
                       + locals[i].noise_mileage
            /\ x >= 0 => (m <= x /\ x < m + 1000)
            /\ x < 0 => (m - 1000 < x /\ x <= m)
            /\ y >= 0 => (c <= y /\ y < c + 300000)
            /\ y < 0 => (c - 300000 < y /\ y <= c)

\* a table with a positive and a negative mileage and a positive and a
\* negative cycle count, each stored as another integer than the nearest
C11_Witness ==
    /\ Len(data) = 2
    /\ locals[1].mileage > 0
    /\ data[1].mileage * 1000 # Round(locals[1].mileage, 1000)
    /\ data[1].battery_cycles > 0
    /\ data[1].battery_cycles * 300000
           # Round(locals[1].mileage + 300 * locals[1].noise_cycles, 300000)
    /\ locals[2].mileage < 0
    /\ data[2].mileage * 1000 # Round(locals[2].mileage, 1000)
    /\ data[2].battery_cycles < 0
    /\ data[2].battery_cycles * 300000
           # Round(locals[2].mileage + 300 * locals[2].noise_cycles, 300000)

\* C12: after any sequence of runs of the scripts, in any order, whenever
\* ONNXmodels/repair_cost_model.onnx exists it is the conversion of a
\* regressor fitted on exactly the six features age_years, mileage_km,
\* battery_health_percent, battery_capacity_kwh, model_encoded,
\* repair_type_encoded in that order, with declared input shape [batch, 6];
\* conver.py completes only when models/simple_repair_cost_model.pkl and
\* models/simple_repair_cost_features.pkl are both there, and only a
\* completing run of repairecost.py writes either of them.
C12_OnnxFromSixFeatures ==
    /\ [](files["ONNXmodels/repair_cost_model.onnx"].kind # "absent" =>
            LET onnx == files["ONNXmodels/repair_cost_model.onnx"]
            IN  /\ onnx.kind = "onnx"
                /\ onnx.obj.estimator = "GradientBoostingRegressor"
                /\ onnx.obj.feature_names_in =
                       << "age_years", "mileage_km", "battery_health_percent",
                          "battery_capacity_kwh", "model_encoded",
                          "repair_type_encoded" >>
                /\ onnx.input_shape = <<"None", 6>>
                /\ onnx.input_type = "float")
    /\ [][ ( /\ pc = "shell"
             /\ mem'.script = "conver.py"
             /\ mem'.status = "converted" )
           => /\ files["models/simple_repair_cost_model.pkl"].holds = "model"
              /\ files["models/simple_repair_cost_features.pkl"].holds
                     = "features" ]_vars
    /\ [][ \A p \in { "models/simple_repair_cost_model.pkl",
                       "models/simple_repair_cost_features.pkl" } :
               files'[p] # files[p]
               => /\ pc = "shell"
                  /\ mem'.script = "repairecost.py"
                  /\ mem'.status = "trained"
                  /\ files'["models/simple_repair_cost_model.pkl"].holds
                         = "model"
                  /\ files'["models/simple_repair_cost_features.pkl"].holds
                         = "features" ]_vars

\* conver.py has just overwritten the ONNX file that an earlier run of
\* train_simplified_model.py wrote, with the conversion of the regressor of
\* repairecost.py
C12_Witness ==
    /\ mem.script = "conver.py"
    /\ mem.status = "converted"
    /\ files["models/repair_cost_out_of_pocket_model.pkl"].kind = "pickle"
    /\ files["models/battery_health_model.pkl"].kind = "pickle"
    /\ files["ONNXmodels/repair_cost_model.onnx"].kind = "onnx"
    /\ files["ONNXmodels/repair_cost_model.onnx"].obj.n_estimators = 250

=============================================================================
